---- MODULE Spec2Model ----
(***************************************************************************)
(* Model of package scheduler (EZ-Api/foundation): the Scheduler wrapper   *)
(* around a robfig/cron driver.  The wrapper's state is s.jobs, s.started, *)
(* s.runCtx and s.runCancel; the driver's state is its entry list, its     *)
(* running flag, its id counter and its job wait group.  Time is counted   *)
(* in ticks, TicksPerSec to the second; every entry's Next is kept as the  *)
(* number of ticks left until it is due, and the wall clock as its offset  *)
(* inside the current second, which is all the schedules read of it.       *)
(***************************************************************************)
EXTENDS Integers, Sequences, FiniteSets, Bags

\* ------------------------------------------------------------- bounds
TicksPerSec == 2        \* clock resolution of the model
MaxEntries == 2         \* registrations over the life of one driver (c.next)
MaxExec == 2            \* goroutines of job runs alive at the same time
MaxStopping == 1        \* Stop calls that have released s.mu and not returned
MaxCalls == 2           \* callers followed through s.mu step by step
LockEntries == 1        \* registrations while callers are followed step by step

Names == {"a", "b"}
Second == TicksPerSec
\* the intervals callers pass to Every
Intervals == {0, Second}

NoJob == [Name |-> "", Schedule |-> <<>>, EntryID |-> 0]
\* contexts: 0 is nil, Dead any cancelled context, Base the base context, and
\* the contexts not cancelled yet are numbered from 1
Dead == 0 - 1
Base == 0 - 2
CtxIDs == 1 .. (MaxStopping + 1)
Ret(op, val, id) == [op |-> op, val |-> val, id |-> id]
NoRet == Ret("none", "", 0)
Zero == 0 - 1           \* the zero time.Time of an entry never scheduled

\* ------------------------------------------------------------- text
\* A schedule expression is its sequence of blank-separated words; a word is
\* a tuple <<kind, digits...>>.
Abs(i) == IF i < 0 THEN 0 - i ELSE i

\* time.Duration.String(): sign, whole seconds, fraction of a second
DurationString(d) ==
    <<"dur", IF d < 0 THEN 0 - 1 ELSE 1, Abs(d) \div Second, Abs(d) % Second>>

\* time.ParseDuration
ParseDuration(w) ==
    IF Len(w) = 4 /\ w[1] = "dur"
    THEN [err |-> FALSE, d |-> w[2] * (w[3] * Second + w[4])]
    ELSE [err |-> TRUE, d |-> 0]

\* "@every " + interval.String()
EverySpec(interval) == << <<"@every">>, DurationString(interval) >>

\* cron.Every: delays below one second become one second, and the delay is
\* cut to whole seconds
ConstantDelay(duration) ==
    LET d == IF duration < Second THEN Second ELSE duration
    IN  d - (d % Second)

\* one field of a five-field expression: a wildcard or a number in range
FieldOK(w, lo, hi) ==
    \/ w = <<"*">>
    \/ Len(w) = 2 /\ w[1] = "num" /\ w[2] >= lo /\ w[2] <= hi

FieldBounds == << <<0, 59>>, <<0, 23>>, <<1, 31>>, <<1, 12>>, <<0, 6>> >>

\* the standard parser of the driver: a descriptor or five fields.  A
\* five-field schedule has no constant delay; the callers here pass such an
\* expression only to have it refused.
ParseStandard(spec) ==
    IF Len(spec) = 0 THEN [err |-> TRUE, delay |-> 0]
    ELSE IF spec[1] = <<"@every">>
    THEN IF Len(spec) # 2 THEN [err |-> TRUE, delay |-> 0]
         ELSE LET p == ParseDuration(spec[2])
              IN  IF p.err THEN [err |-> TRUE, delay |-> 0]
                  ELSE [err |-> FALSE, delay |-> ConstantDelay(p.d)]
    ELSE IF Len(spec) # 5 THEN [err |-> TRUE, delay |-> 0]
    ELSE IF \E i \in 1 .. 5 : ~FieldOK(spec[i], FieldBounds[i][1], FieldBounds[i][2])
    THEN [err |-> TRUE, delay |-> 0]
    ELSE [err |-> FALSE, delay |-> 0]

\* the expressions callers pass to Cron
ValidExprs == {EverySpec(Second)}
InvalidExprs ==
    { << <<"word">>, <<"word">> >>,                               \* "invalid expression"
      << <<"@every">>, <<"word">> >>,                             \* "@every soon"
      << <<"num", 60>>, <<"*">>, <<"*">>, <<"*">>, <<"*">> >>,    \* "60 * * * *"
      << <<"*">>, <<"*">>, <<"*">>, <<"*">> >> }                  \* "* * * *"
Exprs == ValidExprs \cup InvalidExprs

VARIABLES
    skipIfRunning,  \* s.skipIfRunning, fixed by the options of New
    jobs,           \* s.jobs
    started,        \* s.started
    runCtx,         \* s.runCtx
    runCancel,      \* s.runCancel: 0 is nil, else the context it cancels
    entries,        \* the driver's entries
    nextID,         \* the driver's id counter
    cronRunning,    \* the driver's running flag
    phase,          \* wall clock, ticks into the current second
    execs,          \* the goroutines started for due entries, a bag
    stopping,       \* Stop calls that released s.mu and have not returned,
                    \* each by the cancel function it holds
    waiting,        \* a context the driver's Stop returned is not yet
                    \* cancelled: its goroutine is in jobWaiter.Wait()
    busy,           \* entries whose skip-if-running channel is empty
    ret,            \* what the step just taken returned to its caller or logged
    mu,             \* s.mu: "free", "R" while goroutines hold RLock, "W"
                    \* while one holds Lock; a call taken as one step holds
                    \* Lock inside that step only
    scan,           \* the call of Jobs under way: the keys its loop has
                    \* passed and the summaries it has appended
    calls           \* the callers followed through s.mu: the method each
                    \* is in and how far it got

NoScan == [pc |-> "idle", seen |-> {}, result |-> {}]
Callers == 1 .. MaxCalls
Idle == [op |-> "none", pc |-> "idle"]

vars == <<skipIfRunning, jobs, started, runCtx, runCancel, entries, nextID,
          cronRunning, phase, execs, stopping, waiting, busy, ret, mu, scan, calls>>

Init ==
    /\ skipIfRunning \in BOOLEAN
    /\ jobs = [n \in Names |-> NoJob]
    /\ started = FALSE
    /\ runCtx = 0
    /\ runCancel = 0
    /\ entries = {}
    /\ nextID = 0
    /\ cronRunning = FALSE
    /\ phase = 0
    /\ execs = EmptyBag
    /\ stopping = {}
    /\ waiting = FALSE
    /\ busy = {}
    /\ ret = NoRet
    /\ mu = "free"
    /\ scan = NoScan
    /\ calls = [i \in Callers |-> Idle]

\* ------------------------------------------------------------- driver
\* ConstantDelaySchedule.Next(t) = t + Delay - t.Nanosecond(): the ticks from
\* now to the next activation
ScheduleNext(delay) == delay - phase

\* an AddFunc that leaves the scheduling of the new entry to the next run()
AddFuncUnscheduled(spec, name) ==
    LET p == ParseStandard(spec)
    IN  IF p.err
        THEN [err |-> TRUE, id |-> 0, entries |-> entries, nextID |-> nextID]
        ELSE [err |-> FALSE, id |-> nextID + 1, nextID |-> nextID + 1,
              entries |-> entries \cup
                  {[ID |-> nextID + 1, name |-> name, Delay |-> p.delay,
                    Next |-> Zero, gone |-> FALSE]}]

\* cron.AddFunc: parse, then take the next id and add the entry; a running
\* driver schedules it at once, a stopped one leaves Next zero until run()
AddFunc(spec, name) ==
    LET p == ParseStandard(spec)
    IN  IF p.err
        THEN [err |-> TRUE, id |-> 0, entries |-> entries, nextID |-> nextID]
        ELSE [err |-> FALSE, id |-> nextID + 1, nextID |-> nextID + 1,
              entries |-> entries \cup
                  {[ID |-> nextID + 1, name |-> name, Delay |-> p.delay,
                    Next |-> IF cronRunning THEN ScheduleNext(p.delay) ELSE Zero,
                    gone |-> FALSE]}]

\* cron.Remove
CronRemove(id) == {e \in entries : e.ID # id}

\* cron.Start: a driver that is not running starts run(), which sets every
\* entry's Next from the current time
CronStart ==
    IF cronRunning THEN entries
    ELSE {[e EXCEPT !.Next = ScheduleNext(e.Delay)] : e \in entries}

\* cron.Stop ends run(); the Next of an entry is not read again before the
\* next run() sets it, so it is kept as the zero time while stopped
CronStop ==
    IF cronRunning THEN {[e EXCEPT !.Next = Zero] : e \in entries} ELSE entries

\* a chain built without cron.Recover
ChainWithoutRecover ==
    IF skipIfRunning THEN <<"SkipIfStillRunning">> ELSE <<>>

\* a chain that holds the skip wrapper whatever the option says
ChainAlwaysSkip == <<"Recover", "SkipIfStillRunning">>

\* the wrappers New puts around every job, outermost first
Chain ==
    IF skipIfRunning THEN <<"Recover", "SkipIfStillRunning">> ELSE <<"Recover">>

InChain(w) == \E i \in 1 .. Len(Chain) : Chain[i] = w

\* the job wait group's counter
InFlight == BagCardinality(execs)
Due == {e \in entries : e.Next = 0}

\* ------------------------------------------------------------- registry
\* s.jobs written without looking at the error of AddFunc
JobsAfterAddUnchecked(name, spec, r) ==
    [jobs EXCEPT ![name] = [Name |-> name, Schedule |-> spec, EntryID |-> r.id]]

\* s.jobs after Every or Cron got r from AddFunc
JobsAfterAdd(name, spec, r) ==
    IF r.err THEN jobs
    ELSE [jobs EXCEPT ![name] = [Name |-> name, Schedule |-> spec, EntryID |-> r.id]]

Register(op, name, spec) ==
    LET r == AddFunc(spec, name)
    IN  /\ mu = "free"
        /\ r.err \/ nextID < MaxEntries
        /\ entries' = r.entries
        /\ nextID' = r.nextID
        /\ jobs' = JobsAfterAdd(name, spec, r)
        /\ ret' = Ret(op, IF r.err THEN "error" ELSE "nil", 0)
        /\ UNCHANGED <<calls, mu, scan, skipIfRunning, started, runCtx, runCancel, cronRunning, phase,
                       execs, stopping, waiting, busy>>

Every(name, interval) == Register("Every", name, EverySpec(interval))

Cron(name, expr) == Register("Cron", name, expr)

\* the driver's entries after Remove(name) deleted entry id; an entry that
\* stays although it was registered under name is marked gone
EntriesAfterRemove(name, id) ==
    {[e EXCEPT !.gone = (e.gone \/ e.name = name)] : e \in CronRemove(id)}

\* Remove without the lookup's ok test
RemoveUnchecked(name) ==
    /\ mu = "free"
    /\ entries' = EntriesAfterRemove(name, jobs[name].EntryID)
    /\ jobs' = [jobs EXCEPT ![name] = NoJob]
    /\ ret' = Ret("Remove", "true", 0)
    /\ UNCHANGED <<calls, mu, scan, skipIfRunning, started, runCtx, runCancel, nextID, cronRunning,
                   phase, execs, stopping, waiting, busy>>

Remove(name) ==
    /\ mu = "free"
    /\ IF jobs[name] = NoJob
       THEN /\ ret' = Ret("Remove", "false", 0)
            /\ UNCHANGED <<jobs, entries>>
       ELSE /\ entries' = EntriesAfterRemove(name, jobs[name].EntryID)
            /\ jobs' = [jobs EXCEPT ![name] = NoJob]
            /\ ret' = Ret("Remove", "true", 0)
    /\ UNCHANGED <<calls, mu, scan, skipIfRunning, started, runCtx, runCancel, nextID, cronRunning,
                   phase, execs, stopping, waiting, busy>>

\* Jobs(): one summary per key of s.jobs
Jobs == {jobs[n] : n \in {m \in Names : jobs[m] # NoJob}}

\* Jobs() that does not take s.mu
JobsBeginUnlocked ==
    /\ scan.pc = "idle"
    /\ scan' = [pc |-> "iter", seen |-> {}, result |-> {}]
    /\ ret' = NoRet
    /\ UNCHANGED <<calls, mu, skipIfRunning, jobs, started, runCtx, runCancel, entries, nextID,
                   cronRunning, phase, execs, stopping, waiting, busy>>

\* Jobs() takes s.mu.RLock() and makes its empty result
JobsBegin ==
    /\ mu = "free"
    /\ scan.pc = "idle"
    /\ mu' = "R"
    /\ scan' = [pc |-> "iter", seen |-> {}, result |-> {}]
    /\ ret' = NoRet
    /\ UNCHANGED <<calls, skipIfRunning, jobs, started, runCtx, runCancel, entries, nextID,
                   cronRunning, phase, execs, stopping, waiting, busy>>

\* one round of the loop over s.jobs: the next key, and its job if the map
\* holds one
JobsVisit(n) ==
    /\ scan.pc = "iter"
    /\ n \notin scan.seen
    /\ scan' = [scan EXCEPT !.seen = @ \cup {n},
                            !.result = IF jobs[n] # NoJob THEN @ \cup {jobs[n]} ELSE @]
    /\ ret' = NoRet
    /\ UNCHANGED <<calls, mu, skipIfRunning, jobs, started, runCtx, runCancel, entries, nextID,
                   cronRunning, phase, execs, stopping, waiting, busy>>

\* the loop is over: Jobs() releases s.mu and returns scan.result
JobsEnd ==
    /\ scan.pc = "iter"
    /\ scan.seen = Names
    /\ mu' = "free"
    /\ scan' = NoScan
    /\ ret' = Ret("Jobs", "", 0)
    /\ UNCHANGED <<calls, skipIfRunning, jobs, started, runCtx, runCancel, entries, nextID,
                   cronRunning, phase, execs, stopping, waiting, busy>>

\* ------------------------------------------------------------- lifecycle
\* context.WithCancel(s.baseContext()): a context no one holds yet
Held == stopping \cup {runCancel}

\* a Start that keeps the run context it finds
StaleContext == IF runCtx # 0 THEN runCtx ELSE 1

NewContext == CHOOSE c \in CtxIDs \ Held : \A d \in CtxIDs \ Held : c <= d

\* Start without the test of s.started
StartUnchecked ==
    /\ mu = "free"
    /\ runCtx' = NewContext
    /\ runCancel' = NewContext
    /\ entries' = CronStart
    /\ cronRunning' = TRUE
    /\ started' = TRUE
    /\ ret' = Ret("Start", "nil", 0)
    /\ UNCHANGED <<calls, mu, scan, skipIfRunning, jobs, nextID, phase, execs, stopping, waiting, busy>>

Start ==
    /\ mu = "free"
    /\ IF started
       THEN UNCHANGED <<started, runCtx, runCancel, entries, cronRunning>>
       ELSE /\ runCtx' = NewContext
            /\ runCancel' = NewContext
            /\ entries' = CronStart
            /\ cronRunning' = TRUE
            /\ started' = TRUE
    /\ ret' = Ret("Start", "nil", 0)
    /\ UNCHANGED <<calls, mu, scan, skipIfRunning, jobs, nextID, phase, execs, stopping, waiting, busy>>

\* a context returned without the call of its cancel function
UncancelledToken == "pending"

\* the token Stop returns when the scheduler is not started: a context
\* cancelled before it is returned
StoppedToken == "done"

\* Running()
Running == started

\* Stop that leaves s.started as it is
StopBeginKeepsStarted ==
    /\ mu = "free"
    /\ IF ~started
       THEN /\ ret' = Ret("Stop", StoppedToken, 0)
            /\ UNCHANGED <<runCancel, stopping>>
       ELSE /\ Cardinality(stopping) < MaxStopping
            /\ runCancel' = 0
            /\ stopping' = stopping \cup {runCancel}
            /\ ret' = NoRet
    /\ UNCHANGED <<calls, mu, scan, skipIfRunning, jobs, started, runCtx, entries, nextID, cronRunning,
                   phase, execs, waiting, busy>>

\* Stop up to the release of s.mu
StopBegin ==
    /\ mu = "free"
    /\ IF ~started
       THEN /\ ret' = Ret("Stop", StoppedToken, 0)
            /\ UNCHANGED <<started, runCancel, stopping>>
       ELSE /\ Cardinality(stopping) < MaxStopping
            /\ started' = FALSE
            /\ runCancel' = 0
            /\ stopping' = stopping \cup {runCancel}
            /\ ret' = NoRet
    /\ UNCHANGED <<calls, mu, scan, skipIfRunning, jobs, runCtx, entries, nextID, cronRunning, phase,
                   execs, waiting, busy>>

\* the context cron.Stop returns is not cancelled yet: a goroutine waits for
\* the job wait group and then cancels it
DriverToken == "pending"

\* that goroutine stays in jobWaiter.Wait() while the counter is not zero
WaitingAfterStop == waiting \/ InFlight > 0

\* cancel(): every holder of context c now holds a cancelled context
Kill(c, x) == IF x = c THEN Dead ELSE x

\* the rest of Stop: cancel the run context, stop the driver, return its token
StopEnd(c) ==
    /\ c \in stopping
    /\ stopping' = stopping \ {c}
    /\ runCtx' = Kill(c, runCtx)
    /\ LET K(x) == [x EXCEPT !.ctx = Kill(c, @)] IN execs' = BagOfAll(K, execs)
    /\ entries' = CronStop
    /\ cronRunning' = FALSE
    /\ waiting' = WaitingAfterStop
    /\ ret' = Ret("Stop", DriverToken, 0)
    /\ UNCHANGED <<calls, mu, scan, skipIfRunning, jobs, started, runCancel, nextID, phase, busy>>

\* ------------------------------------------------------------- clock and runs
Tick ==
    /\ phase' = (phase + 1) % TicksPerSec
    /\ entries' = {[e EXCEPT !.Next = IF e.Next > 0 THEN e.Next - 1 ELSE e.Next] :
                   e \in entries}
    /\ ret' = NoRet
    /\ UNCHANGED <<calls, mu, scan, skipIfRunning, jobs, started, runCtx, runCancel, nextID,
                   cronRunning, execs, stopping, waiting, busy>>

\* run(), timer case: start a goroutine for every due entry and set its Next
TimerFire ==
    /\ cronRunning
    /\ Due # {}
    /\ InFlight + Cardinality(Due) <= MaxExec
    /\ execs' = execs (+) SetToBag({[entry |-> e.ID, ctx |-> 0, pc |-> "queued"] : e \in Due})
    /\ entries' = {IF e \in Due THEN [e EXCEPT !.Next = ScheduleNext(e.Delay)] ELSE e :
                   e \in entries}
    /\ ret' = NoRet
    /\ UNCHANGED <<calls, mu, scan, skipIfRunning, jobs, started, runCtx, runCancel, nextID,
                   cronRunning, phase, stopping, waiting, busy>>

\* jobContext(): the run context, else the base context
jobContext == IF runCtx # 0 THEN runCtx ELSE Base

\* the goroutines left when x ends
Without(x) == execs (-) SetToBag({x})

\* jobWaiter.Done(): a wait group that drops to zero releases the goroutines
\* blocked in Wait, and each cancels the context it guards
WaitingAfterEnd == waiting /\ InFlight > 1

\* a skip wrapper that never finds its channel empty
NeverStillRunning(x) == FALSE

\* the skip wrapper's select: the receive from the entry's one-slot channel
\* fails when the channel is empty, one step that tests and takes
StillRunning(x) == x.entry \in busy

\* the runs of entry id that are inside the body
BodiesOf(id) ==
    LET S == {x \in BagToSet(execs) : x.entry = id /\ x.pc = "body"}
    IN  BagCardinality([x \in S |-> CopiesIn(x, execs)])

\* a started goroutine runs the chain: skipped if the entry's channel is
\* empty, else it takes the channel's value and calls fn(jobContext())
ExecBegin(x) ==
    /\ BagIn(x, execs)
    /\ x.pc = "queued"
    /\ IF InChain("SkipIfStillRunning") /\ StillRunning(x)
       THEN /\ execs' = Without(x)
            /\ waiting' = WaitingAfterEnd
            /\ ret' = Ret("skip", "", x.entry)
            /\ UNCHANGED busy
       ELSE /\ execs' = Without(x) (+) SetToBag({[x EXCEPT !.pc = "body", !.ctx = jobContext]})
            /\ busy' = IF InChain("SkipIfStillRunning") THEN busy \cup {x.entry} ELSE busy
            /\ ret' = NoRet
            /\ UNCHANGED waiting
    /\ UNCHANGED <<calls, mu, scan, skipIfRunning, jobs, started, runCtx, runCancel, entries, nextID,
                   cronRunning, phase, stopping>>

\* the body returns
ExecReturn(x) ==
    /\ BagIn(x, execs)
    /\ x.pc = "body"
    /\ execs' = Without(x)
    /\ busy' = busy \ {x.entry}
    /\ waiting' = WaitingAfterEnd
    /\ ret' = NoRet
    /\ UNCHANGED <<calls, mu, scan, skipIfRunning, jobs, started, runCtx, runCancel, entries, nextID,
                   cronRunning, phase, stopping>>

\* a skip wrapper whose send is not deferred: a panic leaves the channel empty
BusyKept(x) == busy

\* the skip wrapper's deferred send runs while a panic unwinds
BusyAfterPanic(x) == busy \ {x.entry}

\* the body panics: with Recover in the chain the panic is logged and the
\* goroutine ends as after a return; without it the process dies
ExecPanic(x) ==
    /\ BagIn(x, execs)
    /\ x.pc = "body"
    /\ busy' = BusyAfterPanic(x)
    /\ ret' = Ret("panic", "", x.entry)
    /\ IF InChain("Recover")
       THEN /\ execs' = Without(x)
            /\ waiting' = WaitingAfterEnd
            /\ UNCHANGED <<started, cronRunning, entries>>
       ELSE /\ execs' = EmptyBag
            /\ started' = FALSE
            /\ cronRunning' = FALSE
            /\ entries' = {}
            /\ UNCHANGED waiting
    /\ UNCHANGED <<calls, mu, scan, skipIfRunning, jobs, runCtx, runCancel, nextID, phase, stopping>>

\* a caller enters a method of the scheduler
Call ==
    \/ \E n \in Names, d \in Intervals : Every(n, d)
    \/ \E n \in Names, x \in Exprs : Cron(n, x)
    \/ \E n \in Names : Remove(n)
    \/ Start
    \/ StopBegin

\* a goroutine already under way takes a step, or time passes
Step ==
    \/ \E c \in stopping : StopEnd(c)
    \/ Tick
    \/ TimerFire
    \/ \E x \in BagToSet(execs) : ExecBegin(x)
    \/ \E x \in BagToSet(execs) : ExecReturn(x)
    \/ \E x \in BagToSet(execs) : ExecPanic(x)

Next == Call \/ Step

Spec == Init /\ [][Next]_vars

\* callers that make one call at a time: no call is made while a Stop is
\* between its unlock and its return
SeqNext ==
    \/ \E n \in Names, d \in Intervals : stopping = {} /\ Every(n, d)
    \/ \E n \in Names, x \in Exprs : stopping = {} /\ Cron(n, x)
    \/ \E n \in Names : stopping = {} /\ Remove(n)
    \/ stopping = {} /\ Start
    \/ stopping = {} /\ StopBegin
    \/ Step

SeqSpec == Init /\ [][SeqNext]_vars

\* periods of half a second, one second and one second and a half
Periods == {Second \div 2, Second, Second + Second \div 2}

\* interval jobs only, of periods below, at and above one second
TimingNext ==
    \/ \E n \in Names, d \in Periods : Every(n, d)
    \/ Start
    \/ StopBegin
    \/ Step

TimingSpec == Init /\ [][TimingNext]_vars

\* The behaviours in which the run loop dispatches only while the scheduler
\* is started: it is not served between the unlock of a Stop and that Stop's
\* call of cron.Stop.  Every run is then dispatched after a Start returned
\* and before the next Stop was requested.
WindowNext ==
    \/ Call
    \/ \E c \in stopping : StopEnd(c)
    \/ Tick
    \/ started /\ TimerFire
    \/ \E x \in BagToSet(execs) : ExecBegin(x)
    \/ \E x \in BagToSet(execs) : ExecReturn(x)
    \/ \E x \in BagToSet(execs) : ExecPanic(x)

WindowSpec == Init /\ [][WindowNext]_vars

\* periods of one and of two seconds: an entry of the shorter period added
\* to a running driver is due before the entries the driver sleeps for
WakePeriods == {Second, 2 * Second}

\* jobs of both periods, registered and removed while the driver sleeps
WakeNext ==
    \/ \E n \in Names, d \in WakePeriods : Every(n, d)
    \/ \E n \in Names, x \in ValidExprs : Cron(n, x)
    \/ \E n \in Names : Remove(n)
    \/ Start
    \/ StopBegin
    \/ Step

WakeSpec == Init /\ [][WakeNext]_vars

\* ------------------------------------------------------------- s.mu, step by step
\* the methods that take s.mu.Lock() and those that take s.mu.RLock()
WriteOps == {"Every", "Cron", "Remove", "Start", "Stop"}
ReadOps == {"Jobs", "Running"}

\* the goroutines between s.mu.RLock() and s.mu.RUnlock(): callers inside
\* Jobs or Running, runs inside jobContext
ReadHolders ==
    Cardinality({i \in Callers : calls[i].pc = "held" /\ calls[i].op \in ReadOps})
    + BagCardinality([x \in {y \in BagToSet(execs) : y.pc = "rheld"} |-> CopiesIn(x, execs)])

\* a goroutine blocked in s.mu.Lock(): until it has had the lock, RLock
\* lets no new reader in
WriterWaiting == \E i \in Callers : calls[i].pc = "wait" /\ calls[i].op \in WriteOps

CanLock == mu = "free"
CanRLock == mu # "W" /\ ~WriterWaiting

\* s.mu after one of its readers called RUnlock
MuAfterRUnlock == IF ReadHolders > 1 THEN "R" ELSE "free"

\* s.mu.Unlock(): the readers blocked in RLock all get the read lock before
\* the next writer is let in
Blocked(c) == c.pc = "wait" /\ c.op \in ReadOps
CallsAfterUnlock(i) ==
    [j \in Callers |-> IF j = i THEN Idle
                       ELSE IF Blocked(calls[j]) THEN [calls[j] EXCEPT !.pc = "held"]
                       ELSE calls[j]]
ExecsAfterUnlock ==
    LET G(x) == IF x.pc = "rwait" THEN [x EXCEPT !.pc = "rheld"] ELSE x
    IN  BagOfAll(G, execs)
MuAfterUnlock ==
    IF \/ \E j \in Callers : Blocked(calls[j])
       \/ \E x \in BagToSet(execs) : x.pc = "rwait"
    THEN "R" ELSE "free"

\* the Stop calls and the registrations under way; the bounds count them
\* from the moment a caller enters
StopCalls == Cardinality({i \in Callers : calls[i].op = "Stop"}) + Cardinality(stopping)
AddCalls == Cardinality({i \in Callers : calls[i].op \in {"Every", "Cron"}})

\* caller i enters a method and reaches its s.mu.Lock() or s.mu.RLock()
CallEnter(i, op) ==
    /\ calls[i] = Idle
    /\ op = "Stop" => StopCalls < MaxStopping
    /\ op \in {"Every", "Cron"} => nextID + AddCalls < LockEntries
    /\ calls' = [calls EXCEPT ![i] = [op |-> op, pc |-> "wait"]]
    /\ ret' = NoRet
    /\ UNCHANGED <<mu, scan, skipIfRunning, jobs, started, runCtx, runCancel, entries, nextID,
                   cronRunning, phase, execs, stopping, waiting, busy>>

\* s.mu.Lock() or s.mu.RLock() returns to caller i
CallLock(i) ==
    /\ calls[i].pc = "wait"
    /\ IF calls[i].op \in WriteOps THEN CanLock ELSE CanRLock
    /\ calls' = [calls EXCEPT ![i].pc = "held"]
    /\ mu' = IF calls[i].op \in WriteOps THEN "W" ELSE "R"
    /\ ret' = NoRet
    /\ UNCHANGED <<scan, skipIfRunning, jobs, started, runCtx, runCancel, entries, nextID,
                   cronRunning, phase, execs, stopping, waiting, busy>>

\* Every or Cron from AddFunc to the deferred Unlock
RegisterHeld(i, op, name, spec) ==
    LET r == AddFunc(spec, name)
    IN  /\ calls[i] = [op |-> op, pc |-> "held"]
        /\ entries' = r.entries
        /\ nextID' = r.nextID
        /\ jobs' = JobsAfterAdd(name, spec, r)
        /\ ret' = Ret(op, IF r.err THEN "error" ELSE "nil", 0)
        /\ calls' = CallsAfterUnlock(i)
        /\ execs' = ExecsAfterUnlock
        /\ mu' = MuAfterUnlock
        /\ UNCHANGED <<scan, skipIfRunning, started, runCtx, runCancel, cronRunning, phase,
                       stopping, waiting, busy>>

\* Remove from the lookup to the deferred Unlock
RemoveHeld(i, name) ==
    /\ calls[i] = [op |-> "Remove", pc |-> "held"]
    /\ IF jobs[name] = NoJob
       THEN /\ ret' = Ret("Remove", "false", 0)
            /\ UNCHANGED <<jobs, entries>>
       ELSE /\ entries' = EntriesAfterRemove(name, jobs[name].EntryID)
            /\ jobs' = [jobs EXCEPT ![name] = NoJob]
            /\ ret' = Ret("Remove", "true", 0)
    /\ calls' = CallsAfterUnlock(i)
    /\ execs' = ExecsAfterUnlock
    /\ mu' = MuAfterUnlock
    /\ UNCHANGED <<scan, skipIfRunning, started, runCtx, runCancel, nextID, cronRunning,
                   phase, stopping, waiting, busy>>

\* Start from the test of s.started to the deferred Unlock
StartHeld(i) ==
    /\ calls[i] = [op |-> "Start", pc |-> "held"]
    /\ IF started
       THEN UNCHANGED <<started, runCtx, runCancel, entries, cronRunning>>
       ELSE /\ runCtx' = NewContext
            /\ runCancel' = NewContext
            /\ entries' = CronStart
            /\ cronRunning' = TRUE
            /\ started' = TRUE
    /\ ret' = Ret("Start", "nil", 0)
    /\ calls' = CallsAfterUnlock(i)
    /\ execs' = ExecsAfterUnlock
    /\ mu' = MuAfterUnlock
    /\ UNCHANGED <<scan, skipIfRunning, jobs, nextID, phase, stopping, waiting, busy>>

\* a Stop that returns from its first branch with s.mu still locked
StopEarlyNoUnlock == "W"

\* s.mu after the Unlock in the first branch of Stop
StopEarlyUnlock == MuAfterUnlock

\* Stop from the test of s.started to its Unlock: it returns from the first
\* branch, and goes on without the lock from the second
StopHeld(i) ==
    /\ calls[i] = [op |-> "Stop", pc |-> "held"]
    /\ IF ~started
       THEN /\ mu' = StopEarlyUnlock
            /\ ret' = Ret("Stop", StoppedToken, 0)
            /\ UNCHANGED <<started, runCancel, stopping>>
       ELSE /\ started' = FALSE
            /\ runCancel' = 0
            /\ stopping' = stopping \cup {runCancel}
            /\ mu' = MuAfterUnlock
            /\ ret' = NoRet
    /\ calls' = CallsAfterUnlock(i)
    /\ execs' = ExecsAfterUnlock
    /\ UNCHANGED <<scan, skipIfRunning, jobs, runCtx, entries, nextID, cronRunning, phase,
                   waiting, busy>>

\* Jobs or Running from its read to the deferred RUnlock
ReadHeld(i) ==
    /\ calls[i].pc = "held"
    /\ calls[i].op \in ReadOps
    /\ ret' = Ret(calls[i].op, IF calls[i].op = "Running" /\ Running THEN "true" ELSE "", 0)
    /\ calls' = [calls EXCEPT ![i] = Idle]
    /\ mu' = MuAfterRUnlock
    /\ UNCHANGED <<scan, skipIfRunning, jobs, started, runCtx, runCancel, entries, nextID,
                   cronRunning, phase, execs, stopping, waiting, busy>>

\* a started goroutine runs the chain up to the RLock of jobContext
RunStart(x) ==
    /\ BagIn(x, execs)
    /\ x.pc = "queued"
    /\ IF InChain("SkipIfStillRunning") /\ StillRunning(x)
       THEN /\ execs' = Without(x)
            /\ waiting' = WaitingAfterEnd
            /\ ret' = Ret("skip", "", x.entry)
            /\ UNCHANGED busy
       ELSE /\ execs' = Without(x) (+) SetToBag({[x EXCEPT !.pc = "rwait"]})
            /\ busy' = IF InChain("SkipIfStillRunning") THEN busy \cup {x.entry} ELSE busy
            /\ ret' = NoRet
            /\ UNCHANGED waiting
    /\ UNCHANGED <<calls, mu, scan, skipIfRunning, jobs, started, runCtx, runCancel, entries,
                   nextID, cronRunning, phase, stopping>>

\* s.mu.RLock() returns inside jobContext
RunRLock(x) ==
    /\ BagIn(x, execs)
    /\ x.pc = "rwait"
    /\ CanRLock
    /\ execs' = Without(x) (+) SetToBag({[x EXCEPT !.pc = "rheld"]})
    /\ mu' = "R"
    /\ ret' = NoRet
    /\ UNCHANGED <<calls, scan, skipIfRunning, jobs, started, runCtx, runCancel, entries,
                   nextID, cronRunning, phase, stopping, waiting, busy>>

\* jobContext reads s.runCtx, calls RUnlock and returns.  The body holds no
\* lock, so how long it runs changes nothing of s.mu: here it returns at
\* once, and the goroutine ends as in ExecReturn.
RunRUnlock(x) ==
    /\ BagIn(x, execs)
    /\ x.pc = "rheld"
    /\ execs' = Without(x)
    /\ busy' = busy \ {x.entry}
    /\ waiting' = WaitingAfterEnd
    /\ mu' = MuAfterRUnlock
    /\ ret' = Ret("run", IF jobContext = Dead THEN "cancelled" ELSE "live", x.entry)
    /\ UNCHANGED <<calls, scan, skipIfRunning, jobs, started, runCtx, runCancel, entries,
                   nextID, cronRunning, phase, stopping>>

\* the one name the followed callers use
LockNames == {"a"}

\* callers and runs that take and release s.mu side by side
LockNext ==
    \/ \E i \in Callers, op \in WriteOps \cup ReadOps : CallEnter(i, op)
    \/ \E i \in Callers : CallLock(i)
    \/ \E i \in Callers, n \in LockNames : RegisterHeld(i, "Every", n, EverySpec(Second))
    \/ \E i \in Callers, n \in LockNames, x \in Exprs : RegisterHeld(i, "Cron", n, x)
    \/ \E i \in Callers, n \in LockNames : RemoveHeld(i, n)
    \/ \E i \in Callers : StartHeld(i)
    \/ \E i \in Callers : StopHeld(i)
    \/ \E i \in Callers : ReadHeld(i)
    \/ \E c \in stopping : StopEnd(c)
    \/ Tick
    \/ TimerFire
    \/ \E x \in BagToSet(execs) : RunStart(x)
    \/ \E x \in BagToSet(execs) : RunRLock(x)
    \/ \E x \in BagToSet(execs) : RunRUnlock(x)

\* caller i leaves the method it holds s.mu in
CallReturn(i) ==
    \/ \E n \in LockNames : RegisterHeld(i, "Every", n, EverySpec(Second))
    \/ \E n \in LockNames, x \in Exprs : RegisterHeld(i, "Cron", n, x)
    \/ \E n \in LockNames : RemoveHeld(i, n)
    \/ StartHeld(i)
    \/ StopHeld(i)
    \/ ReadHeld(i)

\* the runs inside jobContext, by the record that stands for them
WaitingRuns == [entry : 1 .. MaxEntries, ctx : {0}, pc : {"rwait"}]
ReadingRuns == [entry : 1 .. MaxEntries, ctx : {0}, pc : {"rheld"}]

\* The Go runtime runs every goroutine that can run: one that holds s.mu
\* goes on to its unlock, a Stop past its unlock goes on to its return.  A
\* goroutine blocked on s.mu gets it once it has been free for it again and
\* again: sync.RWMutex hands the lock to its waiters and starves none.
\* Nothing is asked of the clock, of the run loop or of the callers.
LockFairness ==
    /\ \A i \in Callers : SF_vars(CallLock(i)) /\ WF_vars(CallReturn(i))
    /\ \A c \in CtxIDs : WF_vars(StopEnd(c))
    /\ \A x \in WaitingRuns : SF_vars(RunRLock(x))
    /\ \A x \in ReadingRuns : WF_vars(RunRUnlock(x))

\* a scheduler made with the default options: no skip wrapper in the chain
LockInit == Init /\ ~skipIfRunning

LockSpec == LockInit /\ [][LockNext]_vars /\ LockFairness

\* The registry under callers that run side by side: calls of the API from
\* some goroutines while another is inside Jobs().  Jobs() changes nothing of
\* the scheduler, so Next leaves its steps out.
RegistryNext ==
    \/ Call
    \/ \E c \in stopping : StopEnd(c)
    \/ JobsBegin
    \/ \E n \in Names : JobsVisit(n)
    \/ JobsEnd

RegistrySpec == Init /\ [][RegistryNext]_vars

\* the goroutines of runs, by the record that stands for them
QueuedRuns == [entry : 1 .. MaxEntries, ctx : {0}, pc : {"queued"}]
BodyRuns == [entry : 1 .. MaxEntries, ctx : {Dead, Base} \cup CtxIDs, pc : {"body"}]

\* Time passes, the Go runtime runs every goroutine that can run (the
\* driver's run loop, a Stop call past its unlock, a goroutine started for a
\* run), and every body returns.  Runs that share a record are not told
\* apart, so a record returning again and again is every one of its runs
\* returning, the oldest first.  Calls of the API and panics are not forced.
Fairness ==
    /\ WF_vars(Tick)
    /\ WF_vars(TimerFire)
    /\ \A c \in CtxIDs : WF_vars(StopEnd(c))
    /\ \A x \in QueuedRuns : WF_vars(ExecBegin(x))
    /\ \A x \in BodyRuns : WF_vars(ExecReturn(x))

FairSpec == Init /\ [][SeqNext]_vars /\ Fairness

\* ------------------------------------------------------------- properties
AllButRet == <<calls, mu, scan, skipIfRunning, jobs, started, runCtx, runCancel, entries, nextID,
               cronRunning, phase, execs, stopping, waiting, busy>>

\* C1: registering (Every or Cron) under a name that is already registered
\* fails with DuplicateName, leaves the existing entry untouched, and Jobs()
\* has exactly one entry with that name.
C1_DuplicateNameRejected ==
    [][\A n \in Names :
         (/\ jobs[n] # NoJob
          /\ \/ \E d \in Intervals : Every(n, d)
             \/ \E x \in ValidExprs : Cron(n, x))
         => /\ ret'.val = "DuplicateName"
            /\ jobs' = jobs
            /\ entries' = entries
            /\ Cardinality({j \in Jobs' : j.Name = n}) = 1]_vars

\* C2: Every with an interval <= 0 fails with InvalidSchedule and leaves the
\* registry unchanged; no new entry is ever fired.
C2_NonPositiveIntervalRejected ==
    [][\A n \in Names, d \in Intervals :
         (d <= 0 /\ Every(n, d))
         => /\ ret'.val = "error"
            /\ jobs' = jobs
            /\ entries' = entries]_vars

\* C3: Cron with a syntactically invalid expression returns an error and
\* registers nothing: the job map and the driver's entries are as before the
\* call, whether the scheduler is started or not.
C3_InvalidCronRegistersNothing ==
    [][\A n \in Names, x \in InvalidExprs :
         Cron(n, x) => (ret'.val = "error" /\ UNCHANGED AllButRet)]_vars

C3_Witness ==
    /\ ret.op = "Cron" /\ ret.val = "error"
    /\ started /\ cronRunning
    /\ \E n \in Names : jobs[n] # NoJob
    /\ \E e \in entries : e.Next >= 0

\* C4: after Remove(name) has returned true, no new execution of any work
\* function that was registered under that name is dispatched.
C4_NoDispatchAfterRemove ==
    [][TimerFire => \A e \in Due : ~e.gone]_vars

\* C5: Remove(name) for a name that is not registered returns false and
\* changes nothing: Jobs(), the driver's entries and the lifecycle state are
\* as before the call.
C5_RemoveAbsentChangesNothing ==
    [][\A n \in Names :
         (jobs[n] = NoJob /\ Remove(n))
         => (ret'.val = "false" /\ UNCHANGED AllButRet)]_vars

C5_Witness ==
    /\ ret.op = "Remove" /\ ret.val = "false"
    /\ started
    /\ entries # {}
    /\ \E n \in Names : jobs[n] # NoJob

\* C6: the token returned by every call of Stop (the first and any repeated
\* one) is satisfied only once all executions dispatched before that stop
\* request and still in flight have returned.  Stated for calls made while
\* no other call of Stop is under way: a token is not returned satisfied, and
\* a pending one does not become satisfied, while a run is in flight.
C6_TokenOnlyAfterDrain ==
    [][/\ (stopping = {} /\ ret'.op = "Stop" /\ ret'.val = "done")
          => BagCardinality(execs') = 0
       /\ (waiting /\ ~waiting') => BagCardinality(execs') = 0]_vars

\* C7: Stop called while the scheduler is Stopped returns an already
\* satisfied token at once and leaves the scheduler Stopped with its registry
\* unchanged.
C7_StopWhenStoppedIsSatisfied ==
    [][(~started /\ StopBegin)
       => (ret' = Ret("Stop", "done", 0) /\ UNCHANGED AllButRet)]_vars

C7_Witness ==
    /\ ret.op = "Stop" /\ ret.val = "done"
    /\ ~started /\ ~cronRunning
    /\ entries # {}
    /\ InFlight > 0

\* C8: if every dispatched body returns, the token Stop returned on a Running
\* scheduler is eventually satisfied: a token that waits for the runs in
\* flight does not wait for ever.  Stated for the behaviours in which the
\* callers make no call and no body panics from some point on.
C8_StopTokenEventuallySatisfied ==
    (<>[][Step /\ ret'.op # "panic"]_vars) => (waiting ~> ~waiting)

\* C9: a panic of one job's body never reaches the driver: the scheduler
\* stays Running, and every other entry and every other run is as before.
C9_PanicIsIsolated ==
    [][\A x \in BagToSet(execs) :
         ExecPanic(x)
         => /\ started' = started
            /\ cronRunning' = cronRunning
            /\ entries' = entries
            /\ jobs' = jobs
            /\ execs' = Without(x)]_vars

C9_Witness ==
    /\ ret.op = "panic"
    /\ started /\ cronRunning
    /\ \E e \in entries : e.ID # ret.id /\ e.Next >= 0
    /\ \E x \in BagToSet(execs) : x.entry # ret.id

C11_SkipKeepsOneBodyInFlight ==
    [][skipIfRunning =>
         /\ \A id \in 1 .. MaxEntries :
               /\ BodiesOf(id)' <= 1
               /\ (id \in busy') <=> (BodiesOf(id)' = 1)
         /\ \A x \in BagToSet(execs) :
               (ExecBegin(x) /\ BodiesOf(x.entry) > 0)
               => (execs' = Without(x) /\ ret' = Ret("skip", "", x.entry))]_vars

C11_Witness ==
    /\ skipIfRunning
    /\ ret.op = "skip"
    /\ BodiesOf(ret.id) = 1
    /\ ~(\E x \in BagToSet(execs) : x.entry = ret.id /\ x.pc = "queued")

\* C12: Start on a scheduler that is already Running does nothing: the
\* scheduler stays Running, the registered jobs and the driver are as they
\* were, and the run context is neither replaced nor cancelled.
C12_StartWhenRunningIsNoOp ==
    [][(started /\ Start)
       => /\ started'
          /\ jobs' = jobs /\ entries' = entries
          /\ runCtx' = runCtx /\ runCancel' = runCancel /\ runCtx' # Dead
          /\ UNCHANGED AllButRet]_vars

\* Start has just returned and a run that began before it holds the run
\* context, which is not cancelled: that Start found the scheduler Running
C12_Witness ==
    /\ ret.op = "Start"
    /\ started /\ cronRunning
    /\ runCtx \in CtxIDs
    /\ \E x \in BagToSet(execs) : x.pc = "body" /\ x.ctx = runCtx
    /\ \E n \in Names : jobs[n] # NoJob

\* C13: for callers that make one call at a time, Running() is false on a
\* new scheduler, true when any Start returns and false when any Stop
\* returns, and Every, Cron and Remove leave it as it is.
C13_RunningFollowsStartAndStop ==
    /\ ~Running
    /\ [][/\ Start => Running'
          /\ (ret'.op = "Stop") => ~Running'
          /\ (ret'.op \in {"Every", "Cron", "Remove"}) => (Running' = Running)]_vars

\* a second cycle: Stop has returned on a scheduler started twice, with a run
\* still in flight
C13_Witness ==
    /\ ret = Ret("Stop", "pending", 0)
    /\ ~Running
    /\ InFlight > 0
    /\ waiting
    /\ \E x \in BagToSet(execs) : x.pc = "body" /\ x.ctx = Dead

JobNames == {j.Name : j \in Jobs}

\* C14: Jobs() holds exactly one summary for every name registered with
\* success and not removed since (a registration adds its name, a removal
\* that returns true takes its name out, nothing else changes the content),
\* and a call of Jobs() that runs beside Every, Cron and Remove returns the
\* content the registry has at one instant of the call, the instant of its
\* return.
C14_JobsIsASnapshot ==
    [][/\ JobsEnd => (scan.result = Jobs /\ scan.result = Jobs')
       /\ Cardinality(Jobs') = Cardinality(JobNames')
       /\ \A n \in Names :
             /\ (/\ ret'.val = "nil"
                 /\ \/ \E d \in Intervals : Every(n, d)
                    \/ \E x \in Exprs : Cron(n, x))
                => (JobNames' = JobNames \cup {n}
                    /\ \A m \in Names \ {n} : jobs'[m] = jobs[m])
             /\ (Remove(n) /\ ret'.val = "true")
                => (JobNames' = JobNames \ {n} /\ n \in JobNames
                    /\ \A m \in Names \ {n} : jobs'[m] = jobs[m])
       /\ (ret'.val \in {"error", "false"}) => (Jobs' = Jobs)
       /\ (ret'.op \notin {"Every", "Cron", "Remove"}) => (Jobs' = Jobs)]_vars

\* Jobs() has returned on a registry that took two registrations and one
\* removal
C14_Witness ==
    /\ ret.op = "Jobs"
    /\ Cardinality(Jobs) = 1
    /\ nextID = 2
    /\ Cardinality(entries) = 1

\* the period a registered entry was given: the duration in the schedule
\* text of its job
PeriodOf(e) == ParseDuration(jobs[e.name].Schedule[2]).d

\* C15: two consecutive dispatches of a valid interval job are at least its
\* period apart, however late the run loop wakes up.  The driver sets the
\* time of the next dispatch when it dispatches, and the next dispatch comes
\* when that time is reached, at the earliest: so at every dispatch the next
\* one is set no less than a period ahead.
C15_DispatchesOnePeriodApart ==
    [][TimerFire =>
         \A e \in Due : \A f \in entries' :
            (f.ID = e.ID /\ jobs[e.name].EntryID = e.ID /\ PeriodOf(e) > 0)
            => f.Next >= PeriodOf(e)]_vars

\* C16: an interval job of period p fires first at its registration time
\* plus p (at the start of the driver plus p when it was registered before)
\* and then at the previous fire time plus p, for periods below one second
\* too: the driver holds the job with delay p, and every activation it sets
\* is p ahead.
C16_FiresEveryPeriod ==
    [][/\ \A n \in Names, d \in Periods :
             Every(n, d)
             => \A e \in entries' \ entries :
                   e.Delay = d /\ (cronRunning => e.Next = d)
       /\ (~cronRunning /\ cronRunning')
             => \A e \in entries' : e.Next = PeriodOf(e)
       /\ TimerFire
             => \A e \in Due : \A f \in entries' :
                   (f.ID = e.ID /\ jobs[e.name].EntryID = e.ID) => f.Next = PeriodOf(e)]_vars

\* C17: once Stop has returned, every run still in flight holds a cancelled
\* context, in every interleaving of Start, Stop and dispatch.  Stated for
\* the Stop that found the scheduler started, at its return.
C17_InFlightRunsSeeCancellation ==
    [][\A c \in stopping :
         StopEnd(c)
         => \A x \in BagToSet(execs') : x.pc = "body" => x.ctx = Dead]_vars

\* C18 as stated: a run dispatched after a Start returned and before the
\* next Stop is requested receives a context that is not cancelled.  Under
\* WindowSpec every run is dispatched in that window, so every run that
\* enters its body receives a context that is not cancelled.
C18_DispatchedRunGetsLiveContext ==
    [][\A x \in BagToSet(execs) :
         (ExecBegin(x) /\ ret'.op # "skip") => jobContext # Dead]_vars

\* C18, amended: a Start that finds the scheduler stopped makes a context no
\* one holds, whatever cycles went before; while the scheduler is started
\* its run context is not cancelled and no Stop under way holds its cancel
\* function; and a run that takes its context while the scheduler is started
\* receives that context, not cancelled.
C18_StartMakesFreshContext ==
    [][/\ (~started /\ Start)
          => (runCtx' \in CtxIDs /\ runCtx' \notin Held /\ runCtx' # runCtx)
       /\ started' => runCtx' \in CtxIDs \ stopping'
       /\ \A x \in BagToSet(execs) :
             (started /\ ExecBegin(x) /\ ret'.op # "skip")
             => /\ jobContext \in CtxIDs
                /\ BagIn([x EXCEPT !.pc = "body", !.ctx = runCtx], execs')]_vars

\* in a later cycle: a run of an earlier cycle holds its cancelled context,
\* a run of this cycle the context of this Start
C18_Witness ==
    /\ started /\ stopping = {}
    /\ runCtx \in CtxIDs
    /\ \E x \in BagToSet(execs) : x.pc = "body" /\ x.ctx = runCtx
    /\ \E y \in BagToSet(execs) : y.pc = "body" /\ y.ctx = Dead

\* C19: once a Stop has returned nothing is dispatched until a later Start; in
\* particular the step that follows the return of a Stop is never a dispatch
\* (ret still holds that return, so no Start came between)
C19_NoDispatchAfterStopReturned ==
    [][TimerFire => ret.op # "Stop"]_vars

\* C20: without the skip option nothing coordinates the runs of a job: a due
\* entry is dispatched whatever runs of it are in flight, a dispatched run is
\* never skipped and enters the body beside the runs already there
C20_OverlappingRunsAreDispatched ==
    [][~skipIfRunning =>
         /\ busy' = {}
         /\ TimerFire => \A e \in Due :
              LET q == [entry |-> e.ID, ctx |-> 0, pc |-> "queued"]
              IN  CopiesIn(q, execs') = CopiesIn(q, execs) + 1
         /\ \A x \in BagToSet(execs) :
              ExecBegin(x) => /\ ret'.op # "skip"
                              /\ BodiesOf(x.entry)' = BodiesOf(x.entry) + 1]_vars

\* two runs of one job are inside the body at the same time
C20_Witness ==
    /\ ~skipIfRunning
    /\ \E id \in 1 .. MaxEntries : BodiesOf(id) >= 2

C22_RegistryAgreesWithDriver ==
    /\ \A e \in entries :
         Cardinality({n \in Names : jobs[n] # NoJob /\ jobs[n].EntryID = e.ID}) = 1
    /\ \A n \in Names :
         jobs[n] # NoJob => \E e \in entries : e.ID = jobs[n].EntryID

\* C23: whenever no call of Start or Stop is under way, Running() is true
\* exactly when the driver's run loop is active
C23_RunningMatchesDriver ==
    stopping = {} => (Running <=> cronRunning)

\* s.mu is held exactly by the goroutines between a lock and its unlock,
\* one writer or some readers
MuHeldByItsHolders ==
    LET writers == {i \in Callers : calls[i].pc = "held" /\ calls[i].op \in WriteOps}
    IN  /\ mu = "W" <=> writers # {}
        /\ mu = "R" <=> ReadHolders > 0
        /\ Cardinality(writers) <= 1
        /\ writers # {} => ReadHolders = 0

\* C24: no interleaving of the calls with the run loop and with the runs
\* inside jobContext deadlocks.  s.mu is never left locked by a goroutine
\* that is gone, and every goroutine that holds it (a caller, a run inside
\* jobContext) or is past it (a Stop after its unlock) can take its next
\* step; and, the waiters of s.mu being served, every call eventually
\* leaves the method it entered.
C24_EveryCallReturns ==
    /\ [](/\ MuHeldByItsHolders
          /\ \A i \in Callers : calls[i].pc = "held" => ENABLED CallReturn(i)
          /\ \A c \in stopping : ENABLED StopEnd(c)
          /\ \A x \in BagToSet(execs) : x.pc = "rheld" => ENABLED RunRUnlock(x))
    /\ \A i \in Callers : (calls[i] # Idle) ~> (calls[i] = Idle)

\* a writer waits for s.mu while a run holds the read lock inside
\* jobContext, and another run waits behind the writer; a Stop is past its
\* unlock at the same time
C24_Witness ==
    /\ \E i \in Callers : calls[i].pc = "wait" /\ calls[i].op \in WriteOps
    /\ \E x \in BagToSet(execs) : x.pc = "rheld"
    /\ \E x \in BagToSet(execs) : x.pc = "rwait"
    /\ stopping # {}
    /\ mu = "R"

====
